---- MODULE Spec2Model ----
(***************************************************************************)
(* A model of the review scheduler of src/app.py: WordData.needs_review,   *)
(* LearningEngine.get_spaced_repetition_words, update_word_mastery and     *)
(* generate_quiz_questions, and of the review handlers that call them.     *)
(*                                                                         *)
(* Units.  mastery_level is held in tenths (MasteryOne = 1.0), time in     *)
(* ticks of which TicksPerDay make one day, so that the whole days of a    *)
(* timedelta (.days) are a floor division.  A WordData object is an entry  *)
(* of heap; lists of words hold object identities, as Python lists do.     *)
(* An Optional value is None (the empty tuple) or <<v>>.                   *)
(***************************************************************************)
EXTENDS Integers, Sequences, FiniteSets, Bags, TLC

VARIABLES
    heap,           \* object identity -> WordData fields
    all_words,      \* a list of words (object identities), the argument `words`
    now,            \* datetime.now(), in ticks
    op,             \* the operation applied by the last step
    due,            \* the value returned by the last needs_review
    limit,          \* the limit passed to the last get_spaced_repetition_words
    review_words,   \* the list returned by the last get_spaced_repetition_words
    num_questions,  \* the num_questions passed to the last generate_quiz_questions
    questions,      \* the list returned by the last generate_quiz_questions
    badge,          \* the value returned by the last get_mastery_badge
    streak,         \* the value returned by the last calculate_streak
    profile,        \* st.session_state.profile: streak_days and last_session
    view,           \* what the review section of the last run showed
    flashcard_session,  \* st.session_state.flashcard_session, None when not in it
    quiz_session,       \* st.session_state.quiz_session, None when not in it
    current_word,       \* st.session_state.current_word, None when not in it
    review_mode,        \* the review mode chosen on the page
    progress_file,      \* learning_data/progress.json: the words saved, None when no file
    stories,            \* st.session_state.stories: filename and content of each story
    story_files,        \* the story files in the directory
    initial,        \* history: the heap as first constructed
    update_calls,   \* history: update_word_mastery calls made, per object
    runs            \* history: runs of the script made

callVars == <<due, limit, review_words, num_questions, questions, badge, streak>>

sessionVars == <<flashcard_session, quiz_session, current_word, review_mode, progress_file,
                 stories, story_files, profile, view, runs>>

vars == <<heap, all_words, now, op, callVars, sessionVars, initial, update_calls>>

----------------------------------------------------------------------------
(* Bounds of the model *)

TicksPerDay == 2
MaxDays == 2
MaxCount == 3
MaxCalls == 3
MaxWords == 3
MaxLimit == 4
MaxPool == 5
MaxQuestions == 1
MaxUpdates == 4
MaxRuns == 6
MaxStreak == 3
MaxScans == 1

(* Program constants *)

MasteryOne == 10
DeltaCorrect == 2
DeltaWrong == 1
MaxInterval == 365
PowNum == 13
PowDen == 10
MinQuizWords == 4
NumWrong == 3
FlashcardsPerSession == 10
QuizQuestionCount == 10
ReviewLimit == 20
DiamondFrom == 9
GreenFrom == 7
YellowFrom == 5
OrangeFrom == 3

None == <<>>
Some(v) == <<v>>

Min(a, b) == IF a <= b THEN a ELSE b
Max(a, b) == IF a >= b THEN a ELSE b

----------------------------------------------------------------------------
(* Exact integer arithmetic for int(review_count ** 1.3): the naturals     *)
(* n ** 13 and k ** 10 exceed the integers of the checker, so they are     *)
(* held as little-endian digit sequences in base BigBase.                  *)

BigBase == 100 * 100

RECURSIVE BigMulCarry(_, _, _)
BigMulCarry(a, m, carry) ==
    IF a = <<>>
    THEN IF carry = 0 THEN <<>>
         ELSE <<carry % BigBase>> \o BigMulCarry(<<>>, m, carry \div BigBase)
    ELSE LET p == Head(a) * m + carry
         IN  <<p % BigBase>> \o BigMulCarry(Tail(a), m, p \div BigBase)

RECURSIVE BigTrim(_)
BigTrim(a) ==
    IF a # <<>> /\ a[Len(a)] = 0 THEN BigTrim(SubSeq(a, 1, Len(a) - 1)) ELSE a

BigMul(a, m) == BigTrim(BigMulCarry(a, m, 0))

RECURSIVE BigPow(_, _)
BigPow(n, e) == IF e = 0 THEN <<1>> ELSE BigMul(BigPow(n, e - 1), n)

RECURSIVE BigLeqFrom(_, _, _)
BigLeqFrom(a, b, i) ==
    IF i = 0 THEN TRUE
    ELSE IF a[i] # b[i] THEN a[i] < b[i]
    ELSE BigLeqFrom(a, b, i - 1)

BigLeq(a, b) ==
    IF Len(a) # Len(b) THEN Len(a) < Len(b) ELSE BigLeqFrom(a, b, Len(a))

(* The largest k in lo..hi with k ** PowDen <= n ** PowNum (lo is one). *)
RECURSIVE FloorRoot(_, _, _)
FloorRoot(lo, hi, big) ==
    IF lo = hi THEN lo
    ELSE LET mid == (lo + hi + 1) \div 2
         IN  IF BigLeq(BigPow(mid, PowDen), big)
             THEN FloorRoot(mid, hi, big)
             ELSE FloorRoot(lo, mid - 1, big)

(* int(n ** 1.3): the floor of n to the power 13/10; n <= n ** 1.3 <= n * n. *)
IntPow(n) == FloorRoot(0, n * n, BigPow(n, PowNum))

PowTable == [n \in 0 .. 100 |-> IntPow(n)]

int_pow(n) == IF n \in DOMAIN PowTable THEN PowTable[n] ELSE IntPow(n)

----------------------------------------------------------------------------
(* WordData: the fields the scheduler reads and writes; the presentational *)
(* fields are passed through unchanged and are left out.                   *)

WordData(e, h, m, lr, rc) ==
    [english |-> e, hindi |-> h, mastery_level |-> m,
     last_reviewed |-> lr, review_count |-> rc]

(* timedelta.days of (t - since): whole days, rounded towards minus infinity *)
days(t, since) == (t - since) \div TicksPerDay

(* Variants of needs_review with a plausible slip, used to test the claims:  *)
(* a never-reviewed word judged by its count, and a strict comparison.       *)
needs_review_unreviewed_by_count(word, t) ==
    IF word.last_reviewed = None
    THEN word.review_count = 0
    ELSE LET interval ==
                 IF word.review_count = 0 THEN 1
                 ELSE IF word.review_count = 1 THEN 2
                 ELSE Min(int_pow(word.review_count), MaxInterval)
         IN  days(t, word.last_reviewed[1]) >= interval

needs_review_strict(word, t) ==
    IF word.last_reviewed = None
    THEN TRUE
    ELSE LET interval ==
                 IF word.review_count = 0 THEN 1
                 ELSE IF word.review_count = 1 THEN 2
                 ELSE Min(int_pow(word.review_count), MaxInterval)
         IN  days(t, word.last_reviewed[1]) > interval

(* A variant with a plausible slip: the 1-day interval also after the      *)
(* first review.                                                           *)
needs_review_one_day_after_first(word, t) ==
    IF word.last_reviewed = None
    THEN TRUE
    ELSE LET interval ==
                 IF word.review_count <= 1 THEN 1
                 ELSE Min(int_pow(word.review_count), MaxInterval)
         IN  days(t, word.last_reviewed[1]) >= interval

(* WordData.needs_review, read at time t *)
needs_review(word, t) ==
    IF word.last_reviewed = None
    THEN TRUE
    ELSE LET days_since == days(t, word.last_reviewed[1])
             interval ==
                 IF word.review_count = 0 THEN 1
                 ELSE IF word.review_count = 1 THEN 2
                 ELSE Min(int_pow(word.review_count), MaxInterval)
         IN  days_since >= interval

(* Variants of update_word_mastery with a plausible slip: no clamping, and   *)
(* a review counted only when the answer was correct.                        *)
update_word_mastery_unclamped(word, correct, t) ==
    [word EXCEPT
        !.review_count = @ + 1,
        !.last_reviewed = Some(t),
        !.mastery_level = IF correct THEN @ + DeltaCorrect ELSE @ - DeltaWrong]

update_word_mastery_count_if_correct(word, correct, t) ==
    [word EXCEPT
        !.review_count = IF correct THEN @ + 1 ELSE @,
        !.last_reviewed = Some(t),
        !.mastery_level = IF correct THEN Min(MasteryOne, @ + DeltaCorrect)
                          ELSE Max(0, @ - DeltaWrong)]

(* A variant with a plausible slip: a wrong answer is counted and leaves    *)
(* last_reviewed as it was.                                                *)
update_word_mastery_undated_if_wrong(word, correct, t) ==
    [word EXCEPT
        !.review_count = @ + 1,
        !.last_reviewed = IF correct THEN Some(t) ELSE @,
        !.mastery_level = IF correct THEN Min(MasteryOne, @ + DeltaCorrect)
                          ELSE Max(0, @ - DeltaWrong)]

(* LearningEngine.update_word_mastery, called at time t: the new fields *)
update_word_mastery_swapped(word, correct, t) ==
    [word EXCEPT !.review_count = @ + 1,
                 !.last_reviewed = Some(t),
                 !.mastery_level = IF correct THEN Min(MasteryOne, @ + DeltaWrong)
                                   ELSE Max(0, @ - DeltaCorrect)]

update_word_mastery(word, correct, t) ==
    [word EXCEPT
        !.review_count = @ + 1,
        !.last_reviewed = Some(t),
        !.mastery_level = IF correct THEN Min(MasteryOne, @ + DeltaCorrect)
                          ELSE Max(0, @ - DeltaWrong)]

(* A variant of get_mastery_badge with a plausible slip: the lower bound   *)
(* of each band is left out of it.                                         *)
get_mastery_badge_exclusive(word) ==
    IF word.mastery_level > DiamondFrom THEN "diamond"
    ELSE IF word.mastery_level > GreenFrom THEN "green"
    ELSE IF word.mastery_level > YellowFrom THEN "yellow"
    ELSE IF word.mastery_level > OrangeFrom THEN "orange"
    ELSE "red"

(* WordData.get_mastery_badge; the emoji are named by their colour *)
get_mastery_badge(word) ==
    IF word.mastery_level >= DiamondFrom THEN "diamond"
    ELSE IF word.mastery_level >= GreenFrom THEN "green"
    ELSE IF word.mastery_level >= YellowFrom THEN "yellow"
    ELSE IF word.mastery_level >= OrangeFrom THEN "orange"
    ELSE "red"

(* datetime.date(): the calendar day of a time *)
date(t) == t \div TicksPerDay

(* A variant of calculate_streak with a plausible slip: a streak broken    *)
(* for more than a day is kept.                                            *)
calculate_streak_kept(p, t) ==
    IF p.last_session = None THEN 0
    ELSE IF date(t) - date(p.last_session[1]) = 1 THEN p.streak_days + 1
    ELSE p.streak_days

(* LearningEngine.calculate_streak(profile), at the time t *)
calculate_streak(p, t) ==
    IF p.last_session = None THEN 0
    ELSE LET days_diff == date(t) - date(p.last_session[1])
         IN  IF days_diff = 0 THEN p.streak_days
             ELSE IF days_diff = 1 THEN p.streak_days + 1
             ELSE 0

(* The end of main(): last_session is set, then the streak is calculated *)
update_streak(p, t) ==
    LET q == [p EXCEPT !.last_session = Some(t)]
    IN  [q EXCEPT !.streak_days = calculate_streak(q, t)]


(* list.sort(key=lambda w: w.mastery_level): ascending and stable, by      *)
(* insertion of each word behind the words whose key is not greater.       *)
RECURSIVE insert_behind_equal(_, _, _)
insert_behind_equal(sorted, x, h) ==
    IF sorted = <<>> THEN <<x>>
    ELSE IF h[Head(sorted)].mastery_level <= h[x].mastery_level
         THEN <<Head(sorted)>> \o insert_behind_equal(Tail(sorted), x, h)
         ELSE <<x>> \o sorted

RECURSIVE insert_before_equal(_, _, _)
insert_before_equal(sorted, x, h) ==
    IF sorted = <<>> THEN <<x>>
    ELSE IF h[Head(sorted)].mastery_level < h[x].mastery_level
         THEN <<Head(sorted)>> \o insert_before_equal(Tail(sorted), x, h)
         ELSE <<x>> \o sorted

RECURSIVE sort_from(_, _, _)
sort_from(rest, sorted, h) ==
    IF rest = <<>> THEN sorted
    ELSE sort_from(Tail(rest), insert_behind_equal(sorted, Head(rest), h), h)

RECURSIVE sort_from_unstable(_, _, _)
sort_from_unstable(rest, sorted, h) ==
    IF rest = <<>> THEN sorted
    ELSE sort_from_unstable(Tail(rest), insert_before_equal(sorted, Head(rest), h), h)

(* A variant of the sort that is not stable: equal keys come out reversed. *)
sort_by_mastery_unstable(words, h) == sort_from_unstable(words, <<>>, h)

sort_by_mastery(words, h) == sort_from(words, <<>>, h)

(* review_words[:limit], a Python slice: a negative limit counts from the  *)
(* end of the list.                                                        *)
slice_to(s, lim) ==
    IF lim >= 0 THEN SubSeq(s, 1, Min(lim, Len(s)))
    ELSE SubSeq(s, 1, Max(0, Len(s) + lim))

(* [w for w in words if w.needs_review] *)
due_words(words, h, t) == SelectSeq(words, LAMBDA w : needs_review(h[w], t))

(* Variants of get_spaced_repetition_words with a plausible slip: the      *)
(* filter left out, and the list cut before it is sorted.                  *)
get_spaced_repetition_words_unfiltered(words, lim, h, t) ==
    slice_to(sort_by_mastery(words, h), lim)

get_spaced_repetition_words_cut_first(words, lim, h, t) ==
    sort_by_mastery(slice_to(due_words(words, h, t), lim), h)

(* LearningEngine.get_spaced_repetition_words(words, limit), on the heap h *)
(* at time t                                                               *)
get_spaced_repetition_words(words, lim, h, t) ==
    slice_to(sort_by_mastery(due_words(words, h, t), h), lim)

----------------------------------------------------------------------------
(* generate_quiz_questions.  The result depends on random.choice,          *)
(* random.sample and random.shuffle: the operator is the set of the lists  *)
(* the function can return.  random.shuffle leaves the options in an       *)
(* arbitrary order, which nothing reads: they are held as a bag.           *)

(* ["गलत", "अनुवाद", "शब्द"], transliterated *)
Fillers == <<"galat", "anuvad", "shabd">>

BagOfSeq(s) ==
    [v \in {s[i] : i \in DOMAIN s} |-> Cardinality({i \in DOMAIN s : s[i] = v})]

(* A variant of wrong_pool with a plausible slip: nothing is left out, so   *)
(* the word's own text can be drawn as a wrong option.                     *)
RECURSIVE wrong_pool_unfiltered(_, _, _)
wrong_pool_unfiltered(words, h, correct) ==
    IF words = <<>> THEN <<>>
    ELSE <<h[Head(words)].hindi>> \o wrong_pool_unfiltered(Tail(words), h, correct)

(* [w.hindi for w in words if w.hindi != correct] *)
RECURSIVE wrong_pool(_, _, _)
wrong_pool(words, h, correct) ==
    IF words = <<>> THEN <<>>
    ELSE IF h[Head(words)].hindi # correct
         THEN <<h[Head(words)].hindi>> \o wrong_pool(Tail(words), h, correct)
         ELSE wrong_pool(Tail(words), h, correct)

(* random.sample(pool, 3): the values at three different positions *)
sample(pool) ==
    {<<pool[t[1]], pool[t[2]], pool[t[3]]>> :
        t \in {u \in (DOMAIN pool) \X (DOMAIN pool) \X (DOMAIN pool) :
                  u[1] < u[2] /\ u[2] < u[3]}}

(* The wrong options of a question whose answer is correct *)
wrong_options(words, h, correct) ==
    LET pool == wrong_pool(words, h, correct)
    IN  IF Len(pool) < NumWrong THEN {SubSeq(Fillers, 1, NumWrong)} ELSE sample(pool)

(* The questions that can be made for word *)
questions_for(words, h, word) ==
    {[word |-> word, correct |-> h[word].hindi,
      options |-> BagOfSeq(<<h[word].hindi>> \o wrong)] :
        wrong \in wrong_options(words, h, h[word].hindi)}

(* [w for w in words if w.english not in used_words] *)
available_words(words, h, used_words) ==
    {words[i] : i \in {j \in DOMAIN words : h[words[j]].english \notin used_words}}

(* The loop: left iterations remain, made holds the questions appended *)
RECURSIVE quiz_loop(_, _, _, _, _)
quiz_loop(words, h, left, used_words, made) ==
    IF left = 0 \/ available_words(words, h, used_words) = {}
    THEN {made}
    ELSE UNION {quiz_loop(words, h, left - 1, used_words \cup {h[q.word].english},
                          Append(made, q)) :
                   q \in UNION {questions_for(words, h, word) :
                                  word \in available_words(words, h, used_words)}}

(* generate_quiz_questions(words, num_questions) *)
generate_quiz_questions(words, num, h) ==
    IF Len(words) < MinQuizWords THEN {<<>>}
    ELSE quiz_loop(words, h, Min(num, Len(words)), {}, <<>>)

----------------------------------------------------------------------------
(* The values the inputs are drawn from *)

TimeSamples ==
    (0 .. MaxDays * TicksPerDay)
    \cup {d * TicksPerDay + o : d \in {MaxInterval - 1, MaxInterval}, o \in {0, 1}}

ReviewCountSamples == (0 .. MaxCount) \cup {93, 94}

MasteryLevels == 0 .. MasteryOne

SelectLevels == {1, 2, 5}

Names == <<"cat", "dog", "bird", "fish", "ball", "book", "pen", "car">>

HindiNames ==
    <<"billi", "kutta", "chidiya", "machhli", "gend", "kitab", "kalam", "gaadi">>

RECURSIVE SeqFromTo(_, _)
SeqFromTo(a, b) == IF a > b THEN <<>> ELSE <<a>> \o SeqFromTo(a + 1, b)

Range(s) == {s[i] : i \in DOMAIN s}

(* UserProfile, of which the model keeps the two fields of the streak *)
UserProfile(sd, ls) == [streak_days |-> sd, last_session |-> ls]

(* No call made yet, and an empty st.session_state with no progress file *)
NoCalls ==
    /\ due = FALSE
    /\ limit = 0
    /\ review_words = <<>>
    /\ num_questions = 0
    /\ questions = <<>>
    /\ badge = ""
    /\ streak = 0

NoSession ==
    /\ flashcard_session = None
    /\ quiz_session = None
    /\ current_word = None
    /\ review_mode = "Flashcards"
    /\ progress_file = None
    /\ stories = <<>>
    /\ story_files = {}
    /\ profile = UserProfile(0, None)
    /\ view = ""
    /\ runs = 0

----------------------------------------------------------------------------
(* SpecEngine: one WordData object, as loaded with any saved fields, under *)
(* update_word_mastery and needs_review while the clock advances.          *)

EngineInit ==
    /\ now \in TimeSamples
    /\ \E m \in MasteryLevels, rc \in ReviewCountSamples :
       \E lr \in {None} \cup {Some(t) : t \in {u \in TimeSamples : u <= now}} :
          heap = [w \in {1} |-> WordData("cat", "billi", m, lr, rc)]
    /\ initial = heap
    /\ all_words = <<1>>
    /\ op = "init"
    /\ NoCalls
    /\ NoSession
    /\ update_calls = [w \in {1} |-> 0]

(* datetime.now() moves on *)
Tick ==
    /\ \E t \in TimeSamples : t > now /\ now' = t
    /\ op' = "tick"
    /\ UNCHANGED <<heap, all_words, callVars, sessionVars, initial, update_calls>>

(* engine.update_word_mastery(word, correct) *)
UpdateWordMastery(w, correct) ==
    /\ update_calls[w] < MaxCalls
    /\ heap' = [heap EXCEPT ![w] = update_word_mastery(heap[w], correct, now)]
    /\ update_calls' = [update_calls EXCEPT ![w] = @ + 1]
    /\ op' = "update_word_mastery"
    /\ UNCHANGED <<all_words, now, callVars, sessionVars, initial>>

(* word.needs_review *)
NeedsReview(w) ==
    /\ due' = needs_review(heap[w], now)
    /\ op' = "needs_review"
    /\ UNCHANGED <<heap, all_words, now, limit, review_words, num_questions, questions,
                   badge, streak, sessionVars, initial, update_calls>>

(* word.get_mastery_badge() *)
GetMasteryBadge(w) ==
    /\ badge' = get_mastery_badge(heap[w])
    /\ op' = "get_mastery_badge"
    /\ UNCHANGED <<heap, all_words, now, due, limit, review_words, num_questions, questions,
                   streak, sessionVars, initial, update_calls>>

EngineNext ==
    \/ Tick
    \/ \E w \in DOMAIN heap : UpdateWordMastery(w, TRUE)
    \/ \E w \in DOMAIN heap : UpdateWordMastery(w, FALSE)
    \/ \E w \in DOMAIN heap : NeedsReview(w)

SpecEngine == EngineInit /\ [][EngineNext]_vars

(* SpecBadge: one WordData object of any mastery level, under              *)
(* update_word_mastery and get_mastery_badge.                              *)

BadgeInit ==
    /\ now = 0
    /\ \E m \in MasteryLevels, rc \in 0 .. MaxCount :
          heap = [w \in {1} |-> WordData("cat", "billi", m, None, rc)]
    /\ initial = heap
    /\ all_words = <<1>>
    /\ op = "init"
    /\ NoCalls
    /\ NoSession
    /\ update_calls = [w \in {1} |-> 0]

BadgeNext ==
    \/ \E w \in DOMAIN heap : UpdateWordMastery(w, TRUE)
    \/ \E w \in DOMAIN heap : UpdateWordMastery(w, FALSE)
    \/ \E w \in DOMAIN heap : GetMasteryBadge(w)

SpecBadge == BadgeInit /\ [][BadgeNext]_vars

----------------------------------------------------------------------------
(* Claims about SpecEngine *)

(* C1: for an entry whose mastery_level starts in [0.0, 1.0], after every  *)
(* update_word_mastery call, whatever the outcomes, 0.0 <= mastery_level   *)
(* <= 1.0.                                                                 *)
C1_MasteryClamped ==
    \A w \in DOMAIN heap :
        /\ 0 <= heap[w].mastery_level
        /\ heap[w].mastery_level <= MasteryOne

(* A call that was clamped at the top: the level was within one correct    *)
(* step of 1.0 at the start and every call since was correct.              *)
C1_Witness ==
    /\ op = "update_word_mastery"
    /\ update_calls[1] = MaxCalls
    /\ initial[1].mastery_level = MasteryOne - 1
    /\ heap[1].mastery_level = MasteryOne

(* C2: after N update_word_mastery calls on one entry its review_count is  *)
(* its initial review_count plus N, whatever the outcomes and whether or   *)
(* not mastery_level was clamped.                                          *)
C2_ReviewCountCounts ==
    \A w \in DOMAIN heap :
        heap[w].review_count = initial[w].review_count + update_calls[w]

(* Calls with a wrong answer on an entry already at 0.0 (clamped). *)
C2_Witness ==
    /\ op = "update_word_mastery"
    /\ update_calls[1] = MaxCalls
    /\ initial[1].mastery_level = 0
    /\ heap[1].mastery_level = 0
    /\ heap[1].review_count = initial[1].review_count + MaxCalls

(* C4: an entry whose last_reviewed is absent needs review at every time   *)
(* and for every review_count and mastery_level.                           *)
C4_NeverReviewedIsDue ==
    (op = "needs_review" /\ heap[1].last_reviewed = None) => due

(* needs_review read on a never-reviewed entry with a positive count, at a *)
(* time later than the start.                                              *)
C4_Witness ==
    /\ op = "needs_review"
    /\ heap[1].last_reviewed = None
    /\ heap[1].review_count > 1
    /\ heap[1].mastery_level > 0
    /\ now > 0
    /\ due

(* The interval of the claim, in days: 1 for no review, 2 for one, and     *)
(* min(floor(review_count ^ 1.3), 365) from two reviews on, written out.   *)
C5_Interval(rc) ==
    CASE rc = 0 -> 1
      [] rc = 1 -> 2
      [] rc = 2 -> 2
      [] rc = 3 -> 4
      [] rc = 4 -> 6
      [] rc = 5 -> 8
      [] rc = 6 -> 10
      [] rc = 7 -> 12
      [] rc = 8 -> 14
      [] rc = 9 -> 17
      [] rc = 10 -> 19
      [] rc = 92 -> 357
      [] rc = 93 -> 362
      [] rc >= 94 -> 365

C5_Covered(rc) == rc \in (0 .. 10) \cup {92, 93} \/ rc >= 94

(* The whole days elapsed between two times. *)
C5_WholeDays(from, to) ==
    CHOOSE d \in 0 .. to : d * TicksPerDay <= to - from /\ to - from < (d + 1) * TicksPerDay

(* C5: for an entry with last_reviewed set, needs_review is true exactly   *)
(* when the whole days elapsed since last_reviewed are >= the interval; in *)
(* particular one day after the review an entry with review_count 0 is due *)
(* and one with review_count 1 is not.                                     *)
C5_DueExactlyAfterInterval ==
    (op = "needs_review" /\ heap[1].last_reviewed # None
        /\ C5_Covered(heap[1].review_count)) =>
        LET elapsed == C5_WholeDays(heap[1].last_reviewed[1], now)
            rc == heap[1].review_count
        IN  /\ due <=> (elapsed >= C5_Interval(rc))
            /\ (elapsed = 1 /\ rc = 0) => due
            /\ (elapsed = 1 /\ rc = 1) => ~due

(* needs_review read one day after the review of an entry reviewed once,   *)
(* by update_word_mastery: not due.                                        *)
C5_Witness ==
    /\ op = "needs_review"
    /\ heap[1].last_reviewed # None
    /\ heap[1].review_count = 1
    /\ update_calls[1] = 1
    /\ C5_WholeDays(heap[1].last_reviewed[1], now) = 1
    /\ ~due

(* C24: from an update_word_mastery call on a word until 2 whole days have *)
(* passed since it, needs_review is false for the word, whatever its       *)
(* review_count, mastery_level and last_reviewed were before the call; the *)
(* word is not in the list get_spaced_repetition_words returns.            *)
C24_AnsweredNotDue ==
    \A w \in DOMAIN heap :
        (update_calls[w] > 0 /\ now - heap[w].last_reviewed[1] < 2 * TicksPerDay) =>
            /\ ~needs_review(heap[w], now)
            /\ op = "needs_review" => ~due
            /\ w \notin Range(get_spaced_repetition_words(all_words, ReviewLimit, heap, now))

(* needs_review read on the last tick before 2 days have passed since the  *)
(* first update of a word that was loaded with review_count 0 and was due  *)
(* when it was updated                                                     *)
C24_Witness ==
    /\ op = "needs_review"
    /\ update_calls[1] = 1
    /\ initial[1].review_count = 0
    /\ needs_review(initial[1], heap[1].last_reviewed[1])
    /\ now - heap[1].last_reviewed[1] = 2 * TicksPerDay - 1
    /\ ~due

(* C25: for an entry that starts with the default mastery fields and is    *)
(* changed by update_word_mastery alone, last_reviewed is set exactly when *)
(* review_count >= 1, so that needs_review never reads its 1-day interval  *)
(* of review_count 0 for it.                                               *)
C25_ReviewedIffCounted ==
    \A w \in DOMAIN heap :
        (initial[w].review_count = 0 /\ initial[w].last_reviewed = None
            /\ initial[w].mastery_level = 0) =>
            /\ heap[w].last_reviewed # None <=> heap[w].review_count >= 1
            /\ ~(heap[w].last_reviewed # None /\ heap[w].review_count = 0)

(* needs_review read for such an entry after a wrong answer, a day later   *)
C25_Witness ==
    /\ op = "needs_review"
    /\ initial[1] = WordData("cat", "billi", 0, None, 0)
    /\ update_calls[1] = 1
    /\ heap[1].mastery_level = 0
    /\ heap[1].review_count = 1
    /\ heap[1].last_reviewed # None
    /\ now - heap[1].last_reviewed[1] = TicksPerDay
    /\ ~due

(* C14: get_mastery_badge puts the mastery level in one of five bands with *)
(* inclusive lower bounds: from 0.9 diamond, from 0.7 green, from 0.5      *)
(* yellow, from 0.3 orange, below that red; each level of [0, 1] is in     *)
(* exactly one band.  Levels are in tenths.                                *)
C14_BadgeBands ==
    op = "get_mastery_badge" =>
        LET m == heap[1].mastery_level
        IN  /\ badge \in {"diamond", "green", "yellow", "orange", "red"}
            /\ badge = "diamond" <=> m >= 9
            /\ badge = "green" <=> (m >= 7 /\ m < 9)
            /\ badge = "yellow" <=> (m >= 5 /\ m < 7)
            /\ badge = "orange" <=> (m >= 3 /\ m < 5)
            /\ badge = "red" <=> m < 3

(* The badge of a word whose level is on the lower bound of a band, after  *)
(* an update brought it there                                              *)
C14_Witness ==
    /\ op = "get_mastery_badge"
    /\ update_calls[1] > 0
    /\ heap[1].mastery_level = 7
    /\ badge = "green"

----------------------------------------------------------------------------
(* SpecSelect: get_spaced_repetition_words on a list of up to MaxWords     *)
(* words, read one day after time 0: a word never reviewed, or reviewed at *)
(* time 0 with review_count 0, is due; one reviewed at time 0 with         *)
(* review_count 1 is not.                                                  *)

SelectEntries ==
    {<<m, lr, rc>> : m \in SelectLevels, lr \in {None, Some(0)}, rc \in {0, 1}}

SelectInit ==
    /\ now = TicksPerDay
    /\ \E n \in 0 .. MaxWords :
       \E f \in [1 .. n -> SelectEntries] :
          /\ heap = [w \in 1 .. n |-> WordData(Names[w], "h", f[w][1], f[w][2], f[w][3])]
          /\ all_words = SeqFromTo(1, n)
          /\ update_calls = [w \in 1 .. n |-> 0]
    /\ initial = heap
    /\ op = "init"
    /\ NoCalls
    /\ NoSession

(* engine.get_spaced_repetition_words(words, limit=lim) *)
GetSpacedRepetitionWords(lim) ==
    /\ op = "init"
    /\ review_words' = get_spaced_repetition_words(all_words, lim, heap, now)
    /\ limit' = lim
    /\ op' = "get_spaced_repetition_words"
    /\ UNCHANGED <<heap, all_words, now, due, num_questions, questions, badge, streak,
                   sessionVars, initial, update_calls>>

SelectNext == \E lim \in 0 .. MaxLimit : GetSpacedRepetitionWords(lim)

SpecSelect == SelectInit /\ [][SelectNext]_vars

----------------------------------------------------------------------------
(* Claims about SpecSelect *)

Selected == op = "get_spaced_repetition_words"

(* The position of word w in the list s that holds it once. *)
PositionIn(s, w) == CHOOSE i \in DOMAIN s : s[i] = w

DueInput == {w \in Range(all_words) : needs_review(heap[w], now)}

(* C6: get_spaced_repetition_words returns only entries of the input for   *)
(* which needs_review holds, each at most once, sorted ascending by        *)
(* mastery_level; for due entries A = 0.2, B = 0.5, C = 0.1 it returns     *)
(* [C, A, B].                                                              *)
C6_DueOnceSorted ==
    Selected =>
        /\ \A i \in DOMAIN review_words : review_words[i] \in DueInput
        /\ \A i, j \in DOMAIN review_words :
              i # j => review_words[i] # review_words[j]
        /\ \A i, j \in DOMAIN review_words :
              i < j => heap[review_words[i]].mastery_level
                          <= heap[review_words[j]].mastery_level
        /\ ( /\ all_words = <<1, 2, 3>>
             /\ DueInput = {1, 2, 3}
             /\ heap[1].mastery_level = 2
             /\ heap[2].mastery_level = 5
             /\ heap[3].mastery_level = 1
             /\ limit >= 3 ) => review_words = <<3, 1, 2>>

(* The example of the claim, with all three entries due. *)
C6_Witness ==
    /\ Selected
    /\ all_words = <<1, 2, 3>>
    /\ DueInput = {1, 2, 3}
    /\ heap[1].mastery_level = 2
    /\ heap[2].mastery_level = 5
    /\ heap[3].mastery_level = 1
    /\ review_words = <<3, 1, 2>>

(* C7: get_spaced_repetition_words(words, limit) returns exactly           *)
(* min(limit, number of due entries) entries, each with mastery_level <=   *)
(* that of every due entry left out; with nothing due it returns the empty *)
(* sequence.                                                               *)
C7_LimitKeepsLowest ==
    Selected =>
        /\ Len(review_words) = Min(limit, Cardinality(DueInput))
        /\ \A k \in Range(review_words) : \A l \in DueInput \ Range(review_words) :
              heap[k].mastery_level <= heap[l].mastery_level
        /\ DueInput = {} => review_words = <<>>

(* More due entries than the limit, of different levels, the lowest last   *)
(* in the input.                                                           *)
C7_Witness ==
    /\ Selected
    /\ Cardinality(DueInput) = 3
    /\ limit = 2
    /\ Len(review_words) = 2
    /\ Len(all_words) = 3
    /\ heap[3].mastery_level < heap[1].mastery_level
    /\ heap[3].mastery_level < heap[2].mastery_level

(* C8: get_spaced_repetition_words is stable: due entries of equal         *)
(* mastery_level come out in their input order, and when the limit cuts    *)
(* through entries of equal mastery_level the earliest in the input are    *)
(* kept.                                                                   *)
C8_StableTies ==
    Selected =>
        /\ \A i, j \in DOMAIN review_words :
              (i < j /\ heap[review_words[i]].mastery_level
                           = heap[review_words[j]].mastery_level)
              => PositionIn(all_words, review_words[i])
                    < PositionIn(all_words, review_words[j])
        /\ \A k \in Range(review_words) : \A l \in DueInput \ Range(review_words) :
              heap[k].mastery_level = heap[l].mastery_level
              => PositionIn(all_words, k) < PositionIn(all_words, l)

(* Three due entries of one level and a limit of two: the cut goes through *)
(* the tie.                                                                *)
C8_Witness ==
    /\ Selected
    /\ DueInput = {1, 2, 3}
    /\ heap[1].mastery_level = heap[2].mastery_level
    /\ heap[2].mastery_level = heap[3].mastery_level
    /\ limit = 2
    /\ review_words = <<1, 2>>

----------------------------------------------------------------------------
(* SpecQuiz: generate_quiz_questions on a pool of up to MaxPool words.     *)
(* The words may share their hindi text with the first word, the first     *)
(* word's hindi text may be a filler text or empty, and the second word    *)
(* may share its english text with the first.                              *)

EnglishChoice(i, c) == IF c = 1 THEN Names[1] ELSE Names[i]

HindiChoice(i, c) ==
    IF c = 0 THEN HindiNames[i]
    ELSE IF i > 1 THEN HindiNames[1]
    ELSE IF c = 1 THEN Fillers[3] ELSE ""

QuizInit ==
    /\ now = 0
    /\ \E n \in 0 .. MaxPool :
       \E ec \in [1 .. n -> {0, 1}], hc \in [1 .. n -> {0, 1, 2}] :
          /\ \A i \in 1 .. n : (ec[i] = 1 => i = 2) /\ (hc[i] = 2 => i = 1)
          /\ heap = [i \in 1 .. n |->
                       WordData(EnglishChoice(i, ec[i]), HindiChoice(i, hc[i]), 0, None, 0)]
          /\ all_words = SeqFromTo(1, n)
          /\ update_calls = [w \in 1 .. n |-> 0]
    /\ initial = heap
    /\ op = "init"
    /\ NoCalls
    /\ NoSession

(* generate_quiz_questions(words, num_questions=num) *)
GenerateQuizQuestions(num) ==
    /\ op = "init"
    /\ questions' \in generate_quiz_questions(all_words, num, heap)
    /\ num_questions' = num
    /\ op' = "generate_quiz_questions"
    /\ UNCHANGED <<heap, all_words, now, due, limit, review_words, badge, streak,
                   sessionVars, initial, update_calls>>

QuizNext == \E num \in 1 .. MaxQuestions : GenerateQuizQuestions(num)

SpecQuiz == QuizInit /\ [][QuizNext]_vars

----------------------------------------------------------------------------
(* Claims about SpecQuiz *)

Generated == op = "generate_quiz_questions"

(* C9: in every question produced by generate_quiz_questions the 4 options *)
(* are pairwise distinct by value and exactly one of them equals the       *)
(* question word's hindi text.                                             *)
C9_OptionsDistinct ==
    Generated =>
        \A i \in DOMAIN questions :
            LET q == questions[i]
            IN  /\ BagCardinality(q.options) = 4
                /\ \A v \in BagToSet(q.options) : CopiesIn(v, q.options) = 1
                /\ CopiesIn(heap[q.word].hindi, q.options) = 1

(* The pool entries whose hindi text differs from v *)
C10_Others(v) == {i \in DOMAIN all_words : heap[all_words[i]].hindi # v}

(* C10: every question produced by generate_quiz_questions has exactly 4   *)
(* options, its 'correct' value is the hindi text of its word and is among *)
(* the options, and every distractor drawn from the pool is the hindi text *)
(* of another pool entry and differs by value from the correct answer.     *)
C10_QuestionShape ==
    Generated =>
        \A i \in DOMAIN questions :
            LET q == questions[i]
            IN  /\ BagCardinality(q.options) = 4
                /\ q.correct = heap[q.word].hindi
                /\ BagIn(q.correct, q.options)
                /\ Cardinality(C10_Others(q.correct)) >= 3 =>
                      /\ CopiesIn(q.correct, q.options) = 1
                      /\ \A v \in BagToSet(q.options) \ {q.correct} :
                            \E j \in DOMAIN all_words :
                                /\ all_words[j] # q.word
                                /\ heap[all_words[j]].hindi = v

(* A question whose three distractors were drawn from four other texts. *)
C10_Witness ==
    /\ Generated
    /\ Len(questions) = 1
    /\ Len(all_words) = 5
    /\ Cardinality({heap[w].hindi : w \in Range(all_words)}) = 5
    /\ BagToSet(questions[1].options) \subseteq {heap[w].hindi : w \in Range(all_words)}
    /\ Cardinality(BagToSet(questions[1].options)) = 4

----------------------------------------------------------------------------
(* SpecStreak: a profile, as loaded with any saved streak and last         *)
(* session, under calculate_streak and the streak update that ends main()  *)
(* while the clock advances.  The saved last session may lie after the     *)
(* clock's time.                                                           *)

StreakTimes == 0 .. MaxDays * TicksPerDay + 1

StreakInit ==
    /\ now \in StreakTimes
    /\ \E sd \in 0 .. MaxStreak, ls \in {None} \cup {Some(t) : t \in StreakTimes} :
          profile = UserProfile(sd, ls)
    /\ heap = <<>>
    /\ initial = heap
    /\ all_words = <<>>
    /\ update_calls = <<>>
    /\ op = "init"
    /\ NoCalls
    /\ flashcard_session = None
    /\ quiz_session = None
    /\ current_word = None
    /\ review_mode = "Flashcards"
    /\ progress_file = None
    /\ stories = <<>>
    /\ story_files = {}
    /\ view = ""
    /\ runs = 0

(* datetime.now() moves on *)
StreakTick ==
    /\ \E t \in StreakTimes : t > now /\ now' = t
    /\ op' = "tick"
    /\ UNCHANGED <<heap, all_words, callVars, sessionVars, initial, update_calls>>

(* engine.calculate_streak(profile) *)
CalculateStreak ==
    /\ streak' = calculate_streak(profile, now)
    /\ op' = "calculate_streak"
    /\ UNCHANGED <<heap, all_words, now, due, limit, review_words, num_questions, questions,
                   badge, sessionVars, initial, update_calls>>

(* The end of main() *)
UpdateStreak ==
    /\ profile' = update_streak(profile, now)
    /\ op' = "update_streak"
    /\ UNCHANGED <<heap, all_words, now, callVars, flashcard_session, quiz_session,
                   current_word, review_mode, progress_file, stories, story_files, view,
                   runs, initial, update_calls>>

StreakNext ==
    \/ StreakTick
    \/ CalculateStreak
    \/ UpdateStreak

SpecStreak == StreakInit /\ [][StreakNext]_vars

----------------------------------------------------------------------------
(* Claims about SpecStreak *)

(* The calendar days from the profile's last session to the clock's day *)
DaysSinceSession == (now \div TicksPerDay) - (profile.last_session[1] \div TicksPerDay)

(* C19: the streak update that ends a run of main adds 1 to streak_days    *)
(* when the run is on the calendar day after the stored last_session,      *)
(* leaves it when the run is on the same day, and sets it to 0 when more   *)
(* than one day has passed.                                                *)
C19_StreakFollowsDays ==
    [][(op' = "update_streak" /\ profile.last_session # None) =>
          /\ DaysSinceSession = 1 => profile'.streak_days = profile.streak_days + 1
          /\ DaysSinceSession = 0 => profile'.streak_days = profile.streak_days
          /\ DaysSinceSession > 1 => profile'.streak_days = 0]_vars

(* C20: calculate_streak returns 0 without a last session, streak_days     *)
(* when the last session is on the current calendar day, streak_days + 1   *)
(* when it is on the day before, and 0 for any other difference, a last    *)
(* session in the future included; the profile is left as it is.           *)
C20_CalculateStreak ==
    [][op' = "calculate_streak" =>
          /\ profile' = profile
          /\ streak' = IF profile.last_session = None THEN 0
                       ELSE IF DaysSinceSession = 0 THEN profile.streak_days
                       ELSE IF DaysSinceSession = 1 THEN profile.streak_days + 1
                       ELSE 0]_vars

(* A streak counted on for a last session of the day before, across the    *)
(* change of the day                                                       *)
C20_Witness ==
    /\ op = "calculate_streak"
    /\ profile.last_session # None
    /\ DaysSinceSession = 1
    /\ now - profile.last_session[1] < TicksPerDay
    /\ profile.streak_days > 0
    /\ streak = profile.streak_days + 1

----------------------------------------------------------------------------
(* SpecQuizPool: generate_quiz_questions asked for as many questions as    *)
(* the pool can give, or more.  The pool has four words of different hindi *)
(* texts; the second word may be the word of another story with the        *)
(* english text of the first, and the last word may have come from a story *)
(* file without a "hindi" key, which is read as "".  One pool has such a   *)
(* word as a fifth word, behind two pairs of words translated alike.       *)

PoolInit ==
    /\ now = 0
    /\ \E n \in {MinQuizWords, MinQuizWords + 1}, same_english \in BOOLEAN, no_hindi \in BOOLEAN :
          /\ n > MinQuizWords => (no_hindi /\ ~same_english)
          /\ heap = [i \in 1 .. n |->
                       WordData(IF i = 2 /\ same_english THEN Names[1] ELSE Names[i],
                                IF i = n /\ no_hindi THEN ""
                                ELSE IF n > MinQuizWords /\ i % 2 = 0 THEN HindiNames[i - 1]
                                ELSE HindiNames[i],
                                0, None, 0)]
          /\ all_words = SeqFromTo(1, n)
          /\ update_calls = [w \in 1 .. n |-> 0]
    /\ initial = heap
    /\ op = "init"
    /\ NoCalls
    /\ NoSession

PoolNext ==
    \E num \in (1 .. MaxQuestions) \cup {QuizQuestionCount} : GenerateQuizQuestions(num)

SpecQuizPool == PoolInit /\ [][PoolNext]_vars

----------------------------------------------------------------------------
(* Claims about generate_quiz_questions and its pool *)

(* The usable entries of the pool: the entries with a non-empty hindi text *)
Usable == {i \in DOMAIN all_words : heap[all_words[i]].hindi # ""}

(* C11: on a pool of at least 4 usable entries generate_quiz_questions     *)
(* returns exactly min(count, number of usable entries) questions, and no  *)
(* entry is the subject of two of them.                                    *)
C11_ExactCount ==
    (Generated /\ Cardinality(Usable) >= 4) =>
        /\ Len(questions) = Min(num_questions, Cardinality(Usable))
        /\ \A i, j \in DOMAIN questions : i # j => questions[i].word # questions[j].word

(* C12: generate_quiz_questions returns the empty list whenever the pool   *)
(* holds 3 or fewer usable entries.                                        *)
C12_SmallPoolEmpty ==
    (Generated /\ Cardinality(Usable) <= 3) => questions = <<>>

(* The hindi texts of the pool that are wrong for a question answered v *)
C13_WrongValues(v) == {heap[w].hindi : w \in Range(all_words)} \ {v}

(* C13: when fewer than 3 wrong hindi texts are available for a question,  *)
(* its 4 options are the correct answer, every available wrong text, and   *)
(* fillers only for what is missing.                                       *)
C13_PadsShortfall ==
    Generated =>
        \A i \in DOMAIN questions :
            LET q == questions[i]
                wrong == C13_WrongValues(q.correct)
            IN  Cardinality(wrong) < 3 =>
                    /\ BagCardinality(q.options) = 4
                    /\ BagIn(q.correct, q.options)
                    /\ \A v \in wrong : BagIn(v, q.options)
                    /\ BagCardinality(q.options) - 1 - Cardinality(wrong)
                          = Cardinality(BagToSet(q.options) \ (wrong \cup {q.correct}))

----------------------------------------------------------------------------
(* Spec: the review section of main() and the handlers of the word         *)
(* details, the flashcards and the quiz.  One step is one run of the       *)
(* script: the run in which a widget of the page reports the user's action *)
(* and, where its handler ends in st.rerun(), the run that follows.  A     *)
(* handler is taken when the run reaches its widget; the review mode is    *)
(* the radio's choice, kept from run to run.                               *)
(*                                                                         *)
(* The words are those of one story, loaded once and merged with a saved   *)
(* progress: four words never reviewed and one reviewed five times.        *)

AppTimes == {0, MaxDays * TicksPerDay}

(* The words of the story file as load_all_story_files makes them: new    *)
(* objects with the default mastery fields                                 *)
story_words ==
    [i \in 1 .. 5 |-> WordData(Names[i], HindiNames[i], 0, None, 0)]

(* word_dict = {w.english: w for w in saved_words}: the last saved word of *)
(* an english text                                                         *)
word_dict(saved, english) ==
    saved[CHOOSE j \in DOMAIN saved :
             /\ saved[j].english = english
             /\ \A k \in DOMAIN saved : saved[k].english = english => k <= j]

(* The merge of the saved progress into a word, in main() *)
merged(word, file) ==
    IF file = None \/ \A j \in DOMAIN file[1] : file[1][j].english # word.english
    THEN word
    ELSE LET saved == word_dict(file[1], word.english)
         IN  [word EXCEPT !.mastery_level = saved.mastery_level,
                          !.review_count = saved.review_count,
                          !.last_reviewed = saved.last_reviewed]

(* The story files the directory can hold, as sorted() orders them.  The   *)
(* first is always there; the second, with a word of the first story in    *)
(* it, is added and removed.                                               *)
StoryFiles == <<"story1.json", "story2.json">>

second_story_words ==
    <<WordData(Names[1], HindiNames[1], 0, None, 0),
      WordData(Names[6], HindiNames[6], 0, None, 0)>>

file_words(f) == IF f = StoryFiles[1] THEN story_words ELSE second_story_words

sorted_files(files) == SelectSeq(StoryFiles, LAMBDA f : f \in files)

RECURSIVE words_of(_)
words_of(fs) == IF fs = <<>> THEN <<>> ELSE file_words(Head(fs)) \o words_of(Tail(fs))

(* The word objects load_all_story_files makes for the files, in its order *)
new_words(files) == words_of(sorted_files(files))

RECURSIVE stories_from(_, _)
stories_from(fs, base) ==
    IF fs = <<>> THEN <<>>
    ELSE <<[filename |-> Head(fs),
            content |-> SeqFromTo(base + 1, base + Len(file_words(Head(fs))))]>>
         \o stories_from(Tail(fs), base + Len(file_words(Head(fs))))

(* The list load_all_story_files returns, its word objects being the heap  *)
(* entries that follow base                                                *)
load_all_story_files(files, base) == stories_from(sorted_files(files), base)

(* {s['filename'] for s in stories} *)
story_filenames(st) == {st[i].filename : i \in DOMAIN st}

(* all_words.extend(story['content']) for each story: the objects of the   *)
(* stories, which are also those of the story grid                         *)
RECURSIVE story_content(_)
story_content(st) ==
    IF st = <<>> THEN <<>> ELSE Head(st).content \o story_content(Tail(st))

(* The objects of st.session_state.all_words as main() builds them from    *)
(* the stories of the files, with the saved progress merged in             *)
loaded_words(files, file) ==
    [i \in DOMAIN new_words(files) |-> merged(new_words(files)[i], file)]

(* The progress saved by an earlier use of the app: ball reviewed 5 times *)
SavedBefore ==
    Some([i \in 1 .. 5 |->
            IF i < 5 THEN story_words[i]
            ELSE WordData(Names[i], HindiNames[i], MasteryOne - 1, Some(0), 5)])

(* The state after the first run of a session that finds the story files  *)
(* files                                                                   *)
AppInitWith(files) ==
    /\ now = 0
    /\ progress_file = SavedBefore
    /\ story_files = files
    /\ heap = loaded_words(files, progress_file)
    /\ stories = load_all_story_files(files, 0)
    /\ all_words = story_content(stories)
    /\ initial = heap
    /\ update_calls = [w \in DOMAIN heap |-> 0]
    /\ op = "init"
    /\ NoCalls
    /\ flashcard_session = None
    /\ quiz_session = None
    /\ current_word = None
    /\ review_mode = "Flashcards"
    /\ profile = UserProfile(0, None)
    /\ view = ""
    /\ runs = 0

AppInit == AppInitWith({StoryFiles[1]})

(* [asdict(word) for word in words], as save_progress writes it and        *)
(* load_progress reads it back                                             *)
saved_words(words, h) == [i \in DOMAIN words |-> h[words[i]]]

(* The session made by render_flashcards *)
new_flashcard_session(rw) ==
    [words |-> slice_to(rw, FlashcardsPerSession), current_index |-> 0,
     show_answer |-> FALSE, completed |-> <<>>]

(* The session made by render_quiz_session *)
new_quiz_session(qs) ==
    [questions |-> qs, current_index |-> 0, answers |-> <<>>, completed |-> FALSE]

(* engine.get_spaced_repetition_words(st.session_state.all_words, limit=20) *)
due_in(words, h) == get_spaced_repetition_words(words, ReviewLimit, h, now)

due_now(h) == due_in(all_words, h)

(* generate_quiz_questions(review_words, num_questions=10).  Of the orders *)
(* in which random.choice can draw the words, the model takes the two that *)
(* follow review_words, forwards and backwards.                            *)
quiz_questions(rw, h) ==
    {q \in generate_quiz_questions(rw, QuizQuestionCount, h) :
        \/ \A i \in DOMAIN q : q[i].word = rw[i]
        \/ \A i \in DOMAIN q : q[i].word = rw[Len(rw) + 1 - i]}

(* A variant of rendered with a plausible slip: a quiz session without     *)
(* questions is made again.                                                *)
rendered_regenerating(words, h, mode, fs, qs) ==
    IF due_in(words, h) = <<>> THEN {<<fs, qs>>}
    ELSE IF mode = "Flashcards"
         THEN {<<IF fs = None THEN Some(new_flashcard_session(due_in(words, h))) ELSE fs,
                 qs>>}
         ELSE IF qs # None /\ qs[1].questions # <<>> THEN {<<fs, qs>>}
              ELSE {<<fs, Some(new_quiz_session(q))>> :
                       q \in quiz_questions(due_in(words, h), h)}

(* The review section of a run in which no widget reports an action: the   *)
(* sessions it leaves, from the sessions fs and qs it finds.               *)
rendered(words, h, mode, fs, qs) ==
    IF due_in(words, h) = <<>> THEN {<<fs, qs>>}
    ELSE IF mode = "Flashcards"
         THEN {<<IF fs = None THEN Some(new_flashcard_session(due_in(words, h))) ELSE fs,
                 qs>>}
         ELSE IF qs # None THEN {<<fs, qs>>}
              ELSE {<<fs, Some(new_quiz_session(q))>> :
                       q \in quiz_questions(due_in(words, h), h)}

(* The run ends in the IndexError of                                       *)
(* session['words'][session['current_index']]: render_flashcards finds a   *)
(* session whose cards are all done                                        *)
raises(words, h, mode, fs) ==
    /\ due_in(words, h) # <<>>
    /\ mode = "Flashcards"
    /\ fs # None
    /\ fs[1].current_index >= Len(fs[1].words)

(* What the review section shows in a run that ends with the sessions fs   *)
(* and qs                                                                  *)
shown(words, h, mode, fs, qs) ==
    IF due_in(words, h) = <<>> THEN "no_words_due"
    ELSE IF mode = "Flashcards"
         THEN IF raises(words, h, mode, fs) THEN "IndexError" ELSE "flashcard"
         ELSE IF qs[1].questions = <<>> THEN "not_enough_words"
              ELSE IF qs[1].completed THEN "quiz_results"
              ELSE "quiz_question"

(* A whole run of the script with the word list words, the heap h and the *)
(* sessions fs, qs, as st.rerun() starts it                                *)
Rerun(words, h, mode, fs, qs) ==
    /\ \E r \in rendered(words, h, mode, fs, qs) :
          /\ flashcard_session' = r[1]
          /\ quiz_session' = r[2]
          /\ view' = shown(words, h, mode, r[1], r[2])
    /\ profile' = IF raises(words, h, mode, fs) THEN profile
                  ELSE update_streak(profile, now)

RECURSIVE calls_upto(_, _)
calls_upto(calls, n) == IF n = 0 THEN 0 ELSE calls[n] + calls_upto(calls, n - 1)

(* The model's bound on the update_word_mastery calls of one behaviour *)
CanUpdate(w) == calls_upto(update_calls, Len(update_calls)) < MaxUpdates

Updated(w, correct) ==
    /\ heap' = [heap EXCEPT ![w] = update_word_mastery(heap[w], correct, now)]
    /\ update_calls' = [update_calls EXCEPT ![w] = @ + 1]

(* The model's bound on the runs of one behaviour *)
Run ==
    /\ runs < MaxRuns
    /\ runs' = runs + 1

(* The model's handlers are taken in runs that find the story files of    *)
(* the stories they hold, so that the story loading of the run leaves the  *)
(* stories; a run that finds other files is a run of Render.               *)
StoriesKept ==
    /\ story_filenames(stories) = story_files
    /\ UNCHANGED <<stories, story_files>>

(* The model's bound on the objects of one behaviour *)
CanLoad == Len(heap) < (MaxScans + 1) * Len(story_words)

(* datetime.now() moves on between two runs *)
AppTick ==
    /\ \E t \in AppTimes : t > now /\ now' = t
    /\ op' = "tick"
    /\ UNCHANGED <<heap, all_words, callVars, sessionVars, initial, update_calls>>

(* A run in which no handler is taken.  When the filenames of the story    *)
(* files differ from those of the stories held, the stories are replaced   *)
(* by the list load_all_story_files has just made, of new objects;         *)
(* all_words is there already and is left as it is.                        *)
Render ==
    /\ op' = "render"
    /\ Run
    /\ IF story_filenames(stories) = story_files
       THEN UNCHANGED <<heap, initial, update_calls, stories>>
       ELSE /\ CanLoad
            /\ heap' = heap \o new_words(story_files)
            /\ initial' = initial \o new_words(story_files)
            /\ update_calls' = update_calls \o [i \in DOMAIN new_words(story_files) |-> 0]
            /\ stories' = load_all_story_files(story_files, Len(heap))
    /\ Rerun(all_words, heap', review_mode, flashcard_session, quiz_session)
    /\ UNCHANGED <<all_words, now, callVars, current_word, review_mode,
                   progress_file, story_files>>

(* The radio "Choose review mode" *)
SelectMode(mode) ==
    /\ due_now(heap) # <<>>
    /\ mode # review_mode
    /\ review_mode' = mode
    /\ op' = "select_mode"
    /\ Run
    /\ StoriesKept
    /\ Rerun(all_words, heap, mode, flashcard_session, quiz_session)
    /\ UNCHANGED <<heap, all_words, now, callVars, current_word, progress_file,
                   initial, update_calls>>

(* The words the user clicks in the model: one never reviewed, and the one *)
(* of the saved progress                                                   *)
ClickedWords == {1, 5}

(* The button of the w-th word of the story grid, counted through the      *)
(* stories                                                                 *)
ClickWord(w) ==
    /\ w \in DOMAIN story_content(stories)
    /\ current_word' = Some(story_content(stories)[w])
    /\ op' = "click_word"
    /\ Run
    /\ StoriesKept
    /\ Rerun(all_words, heap, review_mode, flashcard_session, quiz_session)
    /\ UNCHANGED <<heap, all_words, now, callVars, review_mode, progress_file,
                   initial, update_calls>>

(* "I know this" (feedback True) and "Need practice" (False) of the word   *)
(* details: update_word_mastery, save_progress, st.rerun()                 *)
RateWord(feedback) ==
    /\ current_word # None
    /\ CanUpdate(current_word[1])
    /\ Updated(current_word[1], feedback)
    /\ progress_file' = Some(saved_words(all_words, heap'))
    /\ op' = IF feedback THEN "rate_know" ELSE "rate_practice"
    /\ Run
    /\ StoriesKept
    /\ Rerun(all_words, heap', review_mode, flashcard_session, quiz_session)
    /\ UNCHANGED <<all_words, now, callVars, current_word, review_mode, initial>>

(* "Save All Progress", at the end of a run that reaches it *)
SaveProgress ==
    /\ ~raises(all_words, heap, review_mode, flashcard_session)
    /\ progress_file' = Some(saved_words(all_words, heap))
    /\ op' = "save_progress"
    /\ Run
    /\ StoriesKept
    /\ Rerun(all_words, heap, review_mode, flashcard_session, quiz_session)
    /\ UNCHANGED <<heap, all_words, now, callVars, current_word, review_mode,
                   initial, update_calls>>

(* "Scan for New Story Files": stories and all_words are deleted, and the  *)
(* next run loads the story files into new objects and merges the saved    *)
(* progress into them.  The sessions and current_word keep the objects     *)
(* they hold.                                                              *)
ScanStories ==
    /\ CanLoad
    /\ heap' = heap \o loaded_words(story_files, progress_file)
    /\ stories' = load_all_story_files(story_files, Len(heap))
    /\ all_words' = story_content(stories')
    /\ initial' = initial \o loaded_words(story_files, progress_file)
    /\ update_calls' = update_calls \o [i \in DOMAIN new_words(story_files) |-> 0]
    /\ op' = "scan_stories"
    /\ Run
    /\ Rerun(all_words', heap', review_mode, flashcard_session, quiz_session)
    /\ UNCHANGED <<now, callVars, current_word, review_mode, progress_file, story_files>>

(* The run reaches the buttons of the current flashcard *)
FlashcardShown ==
    /\ due_now(heap) # <<>>
    /\ review_mode = "Flashcards"
    /\ flashcard_session # None
    /\ flashcard_session[1].current_index < Len(flashcard_session[1].words)

(* current_word = session['words'][session['current_index']] *)
flashcard_word == flashcard_session[1].words[flashcard_session[1].current_index + 1]

(* The tail shared by Skip Card, Easy, Medium, Hard and Next: the card is  *)
(* recorded and the index moves on; show_flashcard_results ends the run of *)
(* the last card, st.rerun() the others.                                   *)
FlashcardDone(h, result) ==
    LET session == [flashcard_session[1] EXCEPT
                       !.completed = Append(@, <<flashcard_word, result>>),
                       !.current_index = @ + 1,
                       !.show_answer = FALSE]
    IN  IF session.current_index >= Len(session.words)
        THEN /\ flashcard_session' = Some(session)
             /\ quiz_session' = quiz_session
             /\ profile' = update_streak(profile, now)
             /\ view' = "flashcard_results"
        ELSE Rerun(all_words, h, review_mode, Some(session), quiz_session)

ShowAnswer ==
    /\ FlashcardShown
    /\ ~flashcard_session[1].show_answer
    /\ op' = "show_answer"
    /\ Run
    /\ StoriesKept
    /\ Rerun(all_words, heap, review_mode,
             Some([flashcard_session[1] EXCEPT !.show_answer = TRUE]), quiz_session)
    /\ UNCHANGED <<heap, all_words, now, callVars, current_word, review_mode,
                   progress_file, initial, update_calls>>

SkipCard ==
    /\ FlashcardShown
    /\ ~flashcard_session[1].show_answer
    /\ op' = "skip_card"
    /\ Run
    /\ StoriesKept
    /\ FlashcardDone(heap, FALSE)
    /\ UNCHANGED <<heap, all_words, now, callVars, current_word, review_mode,
                   progress_file, initial, update_calls>>

(* The tail shared by Easy, Medium and Hard *)
FlashcardRated(correct) ==
    /\ FlashcardShown
    /\ flashcard_session[1].show_answer
    /\ CanUpdate(flashcard_word)
    /\ Updated(flashcard_word, correct)
    /\ FlashcardDone(heap', correct)
    /\ UNCHANGED <<all_words, now, callVars, current_word, review_mode,
                   progress_file, initial>>

Easy ==
    /\ op' = "easy"
    /\ Run
    /\ StoriesKept
    /\ FlashcardRated(TRUE)

Medium ==
    /\ op' = "medium"
    /\ Run
    /\ StoriesKept
    /\ FlashcardRated(TRUE)

Hard ==
    /\ op' = "hard"
    /\ Run
    /\ StoriesKept
    /\ FlashcardRated(FALSE)

NextCard ==
    /\ FlashcardShown
    /\ flashcard_session[1].show_answer
    /\ op' = "next"
    /\ Run
    /\ StoriesKept
    /\ FlashcardDone(heap, FALSE)
    /\ UNCHANGED <<heap, all_words, now, callVars, current_word, review_mode,
                   progress_file, initial, update_calls>>

(* The run reaches render_quiz_session with a session that has questions *)
QuizShown ==
    /\ due_now(heap) # <<>>
    /\ review_mode = "Quiz"
    /\ quiz_session # None
    /\ quiz_session[1].questions # <<>>

(* question = session['questions'][session['current_index']] *)
question == quiz_session[1].questions[quiz_session[1].current_index + 1]

(* A variant of QuizAnswered with a plausible slip: the answer is stored   *)
(* and the question stays the current one.                                 *)
QuizAnswered_same_question(h, selected, is_correct) ==
    Rerun(all_words, h, review_mode, flashcard_session,
          Some([quiz_session[1] EXCEPT
                   !.answers = Append(@, [word |-> question.word,
                                          selected |-> selected,
                                          correct |-> question.correct,
                                          is_correct |-> is_correct])]))

(* A variant of QuizAnswered with a plausible slip: the quiz is completed   *)
(* when current_index has passed the number of questions.                  *)
QuizAnswered_completed_late(h, selected, is_correct) ==
    LET session == [quiz_session[1] EXCEPT
                       !.answers = Append(@, [word |-> question.word,
                                              selected |-> selected,
                                              correct |-> question.correct,
                                              is_correct |-> is_correct]),
                       !.current_index = @ + 1]
        ended == [session EXCEPT
                       !.completed = session.current_index > Len(session.questions)]
    IN  Rerun(all_words, h, review_mode, flashcard_session, Some(ended))

(* The tail shared by Submit Answer and Skip Question *)
QuizAnswered(h, selected, is_correct) ==
    LET session == [quiz_session[1] EXCEPT
                       !.answers = Append(@, [word |-> question.word,
                                              selected |-> selected,
                                              correct |-> question.correct,
                                              is_correct |-> is_correct]),
                       !.current_index = @ + 1]
        ended == [session EXCEPT
                       !.completed = session.current_index >= Len(session.questions)]
    IN  Rerun(all_words, h, review_mode, flashcard_session, Some(ended))

(* The options the user selects in the model: the correct one, or the     *)
(* first of the others in the order of HindiNames and Fillers             *)
selected_option(right) ==
    IF right THEN question.correct
    ELSE LET others == {i \in 1 .. Len(HindiNames \o Fillers) :
                           /\ (HindiNames \o Fillers)[i] # question.correct
                           /\ (HindiNames \o Fillers)[i] \in BagToSet(question.options)}
         IN  (HindiNames \o Fillers)[CHOOSE i \in others : \A j \in others : i <= j]

(* Submit Answer, with the radio's option selected *)
QuizSubmit(selected) ==
    /\ QuizShown
    /\ ~quiz_session[1].completed
    /\ selected \in BagToSet(question.options)
    /\ CanUpdate(question.word)
    /\ Updated(question.word, selected = question.correct)
    /\ op' = "submit_answer"
    /\ Run
    /\ StoriesKept
    /\ QuizAnswered(heap', selected, selected = question.correct)
    /\ UNCHANGED <<all_words, now, callVars, current_word, review_mode,
                   progress_file, initial>>

(* A variant of QuizSkip with a plausible slip: the skipped question is    *)
(* counted against the word as a wrong answer.                             *)
QuizSkip_counted ==
    /\ QuizShown
    /\ ~quiz_session[1].completed
    /\ CanUpdate(question.word)
    /\ Updated(question.word, FALSE)
    /\ op' = "skip_question"
    /\ Run
    /\ StoriesKept
    /\ QuizAnswered(heap', "Skipped", FALSE)
    /\ UNCHANGED <<all_words, now, callVars, current_word, review_mode,
                   progress_file, initial>>

(* Skip Question *)
QuizSkip ==
    /\ QuizShown
    /\ ~quiz_session[1].completed
    /\ op' = "skip_question"
    /\ Run
    /\ StoriesKept
    /\ QuizAnswered(heap, "Skipped", FALSE)
    /\ UNCHANGED <<heap, all_words, now, callVars, current_word, review_mode,
                   progress_file, initial, update_calls>>

(* The tail shared by the two buttons of show_quiz_results *)
QuizClosed ==
    /\ QuizShown
    /\ quiz_session[1].completed
    /\ Rerun(all_words, heap, review_mode, flashcard_session, None)
    /\ UNCHANGED <<heap, all_words, now, callVars, current_word, review_mode,
                   progress_file, initial, update_calls>>

QuizTryAgain ==
    /\ op' = "try_again"
    /\ Run
    /\ StoriesKept
    /\ QuizClosed

QuizBackToLearning ==
    /\ op' = "back_to_learning"
    /\ Run
    /\ StoriesKept
    /\ QuizClosed

Next ==
    \/ AppTick
    \/ Render
    \/ \E mode \in {"Flashcards", "Quiz"} : SelectMode(mode)
    \/ \E w \in ClickedWords : ClickWord(w)
    \/ \E feedback \in BOOLEAN : RateWord(feedback)
    \/ ShowAnswer
    \/ SkipCard
    \/ Easy
    \/ Medium
    \/ Hard
    \/ NextCard
    \/ \E right \in BOOLEAN : QuizSubmit(selected_option(right))
    \/ QuizSkip
    \/ QuizTryAgain
    \/ QuizBackToLearning

Spec == AppInit /\ [][Next]_vars

(* SpecStories: the word list saved, deleted and loaded again while words  *)
(* are rated in the word details and on flashcards.                        *)
StoriesNext ==
    \/ AppTick
    \/ Render
    \/ \E w \in ClickedWords : ClickWord(w)
    \/ \E feedback \in BOOLEAN : RateWord(feedback)
    \/ SaveProgress
    \/ ScanStories
    \/ ShowAnswer
    \/ SkipCard
    \/ Easy
    \/ Medium
    \/ Hard
    \/ NextCard

SpecStories == AppInit /\ [][StoriesNext]_vars

(* SpecFiles: story files added to and removed from the directory between  *)
(* the runs, while words are clicked in the story grid and rated in the    *)
(* word details, and the word list is saved, deleted and loaded again.     *)
FilesInit == \E files \in {{StoryFiles[1]}, {StoryFiles[1], StoryFiles[2]}} : AppInitWith(files)

(* A story file appears in the directory *)
AddStoryFile ==
    /\ StoryFiles[2] \notin story_files
    /\ story_files' = story_files \cup {StoryFiles[2]}
    /\ op' = "add_story_file"
    /\ UNCHANGED <<heap, all_words, now, callVars, flashcard_session, quiz_session,
                   current_word, review_mode, progress_file, stories, profile, view, runs,
                   initial, update_calls>>

(* A story file is taken out of the directory *)
RemoveStoryFile ==
    /\ StoryFiles[2] \in story_files
    /\ story_files' = story_files \ {StoryFiles[2]}
    /\ op' = "remove_story_file"
    /\ UNCHANGED <<heap, all_words, now, callVars, flashcard_session, quiz_session,
                   current_word, review_mode, progress_file, stories, profile, view, runs,
                   initial, update_calls>>

FilesNext ==
    \/ AddStoryFile
    \/ RemoveStoryFile
    \/ Render
    \/ \E w \in ClickedWords : ClickWord(w)
    \/ \E feedback \in BOOLEAN : RateWord(feedback)
    \/ SaveProgress
    \/ ScanStories

SpecFiles == FilesInit /\ [][FilesNext]_vars

----------------------------------------------------------------------------
(* The mastery of word w after the step is the one before it raised by 0.2 *)
(* up to 1.0, and its last review is the time of the step                  *)
C3_Raised(w) ==
    /\ heap'[w].mastery_level =
          IF heap[w].mastery_level + 2 > 10 THEN 10 ELSE heap[w].mastery_level + 2
    /\ heap'[w].last_reviewed = <<now>>

(* ... lowered by 0.1 down to 0.0 *)
C3_Lowered(w) ==
    /\ heap'[w].mastery_level =
          IF heap[w].mastery_level - 1 < 0 THEN 0 ELSE heap[w].mastery_level - 1
    /\ heap'[w].last_reviewed = <<now>>

C3_LastAnswer == quiz_session'[1].answers[Len(quiz_session'[1].answers)]

(* C3: update_word_mastery(word, correct) sets mastery_level to            *)
(* min(1.0, old + 0.2) when correct and to max(0.0, old - 0.1) otherwise,  *)
(* and last_reviewed to the current time; every caller goes through it.    *)
(* In every step of the application each word is left as it was, raised or *)
(* lowered by that one pair; Easy, Medium and "I know this" raise their    *)
(* word, Hard and "Need practice" lower it, and Submit Answer raises the   *)
(* question's word when the selected option is the correct one and lowers  *)
(* it otherwise.                                                           *)
C3_OneDeltaPair ==
    [][/\ \A w \in DOMAIN heap : heap'[w] = heap[w] \/ C3_Raised(w) \/ C3_Lowered(w)
       /\ op' \in {"easy", "medium"} => C3_Raised(flashcard_word)
       /\ op' = "hard" => C3_Lowered(flashcard_word)
       /\ op' = "rate_know" => C3_Raised(current_word[1])
       /\ op' = "rate_practice" => C3_Lowered(current_word[1])
       /\ op' = "submit_answer" =>
             IF C3_LastAnswer.selected = C3_LastAnswer.correct
             THEN C3_Raised(question.word)
             ELSE C3_Lowered(question.word)]_vars

(* A word never reviewed before, rated once on a flashcard or in the word  *)
(* details and then answered wrongly in the quiz: 0.0 + 0.2 - 0.1          *)
C3_Witness ==
    /\ op = "submit_answer"
    /\ quiz_session # None
    /\ LET answer == quiz_session[1].answers[Len(quiz_session[1].answers)]
       IN  /\ ~answer.is_correct
           /\ initial[answer.word].last_reviewed = None
           /\ update_calls[answer.word] = 2
           /\ heap[answer.word].mastery_level = 1
           /\ heap[answer.word].last_reviewed = Some(now)

----------------------------------------------------------------------------
(* Claims about the sessions *)

FlashcardComplete ==
    /\ flashcard_session # None
    /\ flashcard_session[1].current_index >= Len(flashcard_session[1].words)

QuizComplete ==
    /\ quiz_session # None
    /\ quiz_session[1].completed

(* C15: Easy, Medium, Hard, Skip Card and Next move the flashcard          *)
(* session's current_index on by exactly 1 and append one result, for the  *)
(* card shown; Submit Answer and Skip Question do the same in the quiz     *)
(* session; Show Answer leaves current_index; no step lowers the           *)
(* current_index of a session that stays; current_index never passes the   *)
(* number of items, and a quiz with questions is completed exactly when    *)
(* current_index is their number.                                          *)
C15_SessionsAdvance ==
    [][/\ op' \in {"easy", "medium", "hard", "skip_card", "next"} =>
             /\ flashcard_session'[1].current_index = flashcard_session[1].current_index + 1
             /\ flashcard_session'[1].words = flashcard_session[1].words
             /\ \E result \in BOOLEAN :
                   flashcard_session'[1].completed =
                       Append(flashcard_session[1].completed, <<flashcard_word, result>>)
       /\ op' \in {"submit_answer", "skip_question"} =>
             /\ quiz_session'[1].current_index = quiz_session[1].current_index + 1
             /\ quiz_session'[1].questions = quiz_session[1].questions
             /\ Len(quiz_session'[1].answers) = Len(quiz_session[1].answers) + 1
             /\ SubSeq(quiz_session'[1].answers, 1, Len(quiz_session[1].answers))
                   = quiz_session[1].answers
             /\ quiz_session'[1].answers[Len(quiz_session'[1].answers)].word = question.word
       /\ op' = "show_answer" =>
             flashcard_session'[1].current_index = flashcard_session[1].current_index
       /\ (flashcard_session # None /\ flashcard_session' # None) =>
             \/ flashcard_session'[1].current_index >= flashcard_session[1].current_index
             \/ flashcard_session'[1].completed = <<>>
       /\ (quiz_session # None /\ quiz_session' # None) =>
             \/ quiz_session'[1].current_index >= quiz_session[1].current_index
             \/ op' \in {"try_again", "back_to_learning"}
       /\ flashcard_session' # None =>
             flashcard_session'[1].current_index <= Len(flashcard_session'[1].words)
       /\ (quiz_session' # None /\ quiz_session'[1].questions # <<>>) =>
             /\ quiz_session'[1].current_index <= Len(quiz_session'[1].questions)
             /\ quiz_session'[1].completed <=>
                   quiz_session'[1].current_index = Len(quiz_session'[1].questions)]_vars

(* A quiz whose last question was skipped after an answer was submitted *)
C15_Witness ==
    /\ op = "skip_question"
    /\ QuizComplete
    /\ quiz_session[1].current_index = Len(quiz_session[1].questions)
    /\ Len(quiz_session[1].answers) = Len(quiz_session[1].questions)
    /\ \E i \in DOMAIN quiz_session[1].answers : quiz_session[1].answers[i].selected # "Skipped"

(* C16: once the last item of a flashcard or quiz session is done, every   *)
(* later run leaves the session as it is, shows its results whenever it    *)
(* shows the session's mode, reads no item and makes no update from the    *)
(* session, until a new session begins with current_index 0.               *)
C16_CompleteIsTerminal ==
    [][op' # "tick" =>
          /\ FlashcardComplete =>
                /\ \/ flashcard_session' = flashcard_session
                   \/ flashcard_session' # None /\ flashcard_session'[1].current_index = 0
                /\ op' \notin {"show_answer", "easy", "medium", "hard", "skip_card", "next"}
                /\ review_mode' = "Flashcards" => view' \in {"flashcard_results", "no_words_due"}
          /\ QuizComplete =>
                /\ \/ quiz_session' = quiz_session
                   \/ quiz_session' = None
                   \/ quiz_session' # None /\ quiz_session'[1].current_index = 0
                /\ op' \notin {"submit_answer", "skip_question"}
                /\ (review_mode' = "Quiz" /\ quiz_session' = quiz_session) =>
                      view' \in {"quiz_results", "no_words_due"}]_vars

(* C18: the mastery fields of the entries are changed by                   *)
(* update_word_mastery alone.  The runs in which Show Answer, Skip Card,   *)
(* Next or Skip Question is taken, and the runs that only render (and in   *)
(* them needs_review, get_spaced_repetition_words and                      *)
(* generate_quiz_questions), leave every entry as it was; a skipped item   *)
(* is recorded in the session as not correct.                              *)
C18_OnlyUpdatesChange ==
    [][/\ op' \in {"show_answer", "skip_card", "next", "skip_question", "render",
                   "select_mode", "click_word", "try_again", "back_to_learning"} =>
             heap' = heap
       /\ op' \in {"skip_card", "next"} =>
             flashcard_session'[1].completed[Len(flashcard_session'[1].completed)]
                 = <<flashcard_word, FALSE>>
       /\ op' = "skip_question" =>
             LET answer == quiz_session'[1].answers[Len(quiz_session'[1].answers)]
             IN  /\ answer.word = question.word
                 /\ answer.selected = "Skipped"
                 /\ ~answer.is_correct]_vars

(* A question skipped: its word has the fields it was loaded with *)
C18_Witness ==
    /\ op = "skip_question"
    /\ LET answer == quiz_session[1].answers[Len(quiz_session[1].answers)]
       IN  /\ answer.selected = "Skipped"
           /\ ~answer.is_correct
           /\ update_calls[answer.word] = 0
           /\ heap[answer.word] = initial[answer.word]
    /\ \E w \in DOMAIN heap : update_calls[w] > 0

(* C22: in every run that renders an existing flashcard session, whatever  *)
(* Show Answer, Easy, Medium, Hard, Skip Card, Next and plain runs came    *)
(* before, current_index is a valid index of the session's word list where *)
(* the current card is read.                                               *)
C22_IndexValid ==
    (flashcard_session # None /\ view \in {"flashcard", "IndexError"}) =>
        /\ 0 <= flashcard_session[1].current_index
        /\ flashcard_session[1].current_index < Len(flashcard_session[1].words)

(* C23: in every quiz session with questions the answers are as many as    *)
(* current_index, which is at most the number of questions; the session is *)
(* completed exactly when current_index is that number, so a question is   *)
(* read at a valid index only and a completed quiz holds one answer per    *)
(* question, in the order of the questions.                                *)
C23_QuizSessionShape ==
    (quiz_session # None /\ quiz_session[1].questions # <<>>) =>
        LET session == quiz_session[1]
        IN  /\ Len(session.answers) = session.current_index
            /\ session.current_index <= Len(session.questions)
            /\ session.completed <=> session.current_index = Len(session.questions)
            /\ view = "quiz_question" => session.current_index < Len(session.questions)
            /\ \A i \in DOMAIN session.answers :
                  /\ session.answers[i].word = session.questions[i].word
                  /\ session.answers[i].correct = session.questions[i].correct

(* A quiz completed by a submitted answer, after a skipped question *)
C23_Witness ==
    /\ op = "submit_answer"
    /\ QuizComplete
    /\ Len(quiz_session[1].questions) >= MinQuizWords
    /\ Len(quiz_session[1].answers) = Len(quiz_session[1].questions)
    /\ \E i \in DOMAIN quiz_session[1].answers : quiz_session[1].answers[i].selected = "Skipped"

(* C26: once a quiz session is completed, each run in Quiz mode that finds *)
(* it shows the quiz results, also when every due word was answered in the *)
(* quiz and no word is due any more.                                       *)
C26_ResultsShown ==
    (QuizComplete /\ review_mode = "Quiz") => view = "quiz_results"

(* C27: a quiz session made while fewer than 4 words were due has no       *)
(* questions and keeps none: no step deletes it or gives it questions, and *)
(* every run that renders the quiz finds it and shows "not enough words",  *)
(* also when 4 or more words are due by then.                              *)
C27_EmptyQuizStays ==
    [][(quiz_session # None /\ quiz_session[1].questions = <<>>) =>
          /\ quiz_session' = quiz_session
          /\ (op' # "tick" /\ review_mode' = "Quiz" /\ due_now(heap') # <<>>) =>
                view' = "not_enough_words"]_vars

(* A run that shows "not enough words" while 4 words are due, two days     *)
(* after the quiz session was made with 3 words due                        *)
C27_Witness ==
    /\ op = "render"
    /\ review_mode = "Quiz"
    /\ quiz_session # None
    /\ quiz_session[1].questions = <<>>
    /\ Len(due_now(heap)) >= MinQuizWords
    /\ view = "not_enough_words"

----------------------------------------------------------------------------
(* Claims about SpecFiles *)

(* C21: when the progress file holds the word list as save_progress wrote  *)
(* it and the word list is built again from the same story files, with the *)
(* saved progress merged in by english text, every entry has the           *)
(* mastery_level, review_count and last_reviewed it had when it was saved, *)
(* also when an english text is that of more than one entry.               *)
C21_SaveReloadRoundTrip ==
    [][( /\ op' = "scan_stories"
         /\ progress_file = Some(saved_words(all_words, heap))
         /\ story_filenames(stories) = story_files
         /\ all_words = story_content(stories) ) =>
            /\ Len(all_words') = Len(all_words)
            /\ \A i \in DOMAIN all_words :
                  /\ heap'[all_words'[i]].english = heap[all_words[i]].english
                  /\ heap'[all_words'[i]].mastery_level = heap[all_words[i]].mastery_level
                  /\ heap'[all_words'[i]].review_count = heap[all_words[i]].review_count
                  /\ heap'[all_words'[i]].last_reviewed = heap[all_words[i]].last_reviewed]_vars

(* C28: whatever runs, additions and removals of story files and scans     *)
(* came before, every word object of the contents of                       *)
(* st.session_state.stories is an element of st.session_state.all_words,   *)
(* so that the save that follows a rating of a word of the story grid in   *)
(* the word details writes the rated word's fields.                        *)
C28_StoryWordsInAllWords ==
    /\ \A i \in DOMAIN story_content(stories) :
          story_content(stories)[i] \in Range(all_words)
    /\ ( /\ op \in {"rate_know", "rate_practice"}
         /\ current_word[1] \in Range(story_content(stories)) ) =>
            \E j \in DOMAIN progress_file[1] : progress_file[1][j] = heap[current_word[1]]

----------------------------------------------------------------------------
(* Claims about SpecStories *)

(* last_reviewed to is not earlier than last_reviewed from *)
NotEarlier(from, to) == from = None \/ (to # None /\ to[1] >= from[1])

(* C17: for every word of the word list, taken by its english text,        *)
(* review_count never decreases and last_reviewed never moves to an        *)
(* earlier time, whatever the step: an answer, a skip, a save or a scan    *)
(* for story files.                                                        *)
C17_ProgressNeverLost ==
    [][\A i \in DOMAIN all_words : \A j \in DOMAIN all_words' :
          heap'[all_words'[j]].english = heap[all_words[i]].english =>
              /\ heap'[all_words'[j]].review_count >= heap[all_words[i]].review_count
              /\ NotEarlier(heap[all_words[i]].last_reviewed,
                            heap'[all_words'[j]].last_reviewed)]_vars

====
